---- MODULE Spec2Model ----
(***************************************************************************)
(* One invocation of exports.handler of netlify/functions/soniclab-api.js   *)
(* together with the two providers it calls.  The handler is an async       *)
(* function: every action below is one uninterrupted run of its code from   *)
(* one await to the next.  The providers are the environment: every         *)
(* response they may give is drawn from the bounded sets defined here.      *)
(***************************************************************************)
EXTENDS Integers, Sequences, FiniteSets, TLC

(* ------------------------------------------------------------------ *)
(* JavaScript values.  Every scalar is a string; the two markers stand *)
(* for the values undefined and null.                                  *)
(* ------------------------------------------------------------------ *)
undefined == "<undefined>"

null == "<null>"

NotAString == "<number>"

\* JS truthiness of the scalars of this model
Truthy(v) == v \notin {undefined, null, ""}

\* a || b
Or(a, b) == IF Truthy(a) THEN a ELSE b

\* `${v}` in a template literal
toStr(v) == IF v = undefined THEN "undefined" ELSE IF v = null THEN "null" ELSE v

\* JSON.stringify of a flat object: a property whose value is undefined is left out
JSONstringify(o) == [k \in {f \in DOMAIN o : o[f] # undefined} |-> o[k]]

(* ------------------------------------------------------------------ *)
(* Bounds and program constants                                         *)
(* ------------------------------------------------------------------ *)
\* the provider answers at most MaxPolls polls with "not finished yet"
MaxPolls == 2

PollIntervalMs == 2500

HttpCreated == 201

HttpOk == 200

GEMINI_API_KEY == "gemini-key"

REPLICATE_API_KEY == "replicate-key"

MasteringModel == "cjwbw/audiotools-v1:9a73e059728551733696536675a6493dfd08b3303530f78275508be61036815a"

TipMarker == "**Tip de Oro"

(* ------------------------------------------------------------------ *)
(* Error messages                                                       *)
(* ------------------------------------------------------------------ *)
MsgMethodNotAllowed == "Method Not Allowed"

MsgGemini == "Error en la API de Gemini."

MsgImagen == "Error en la API de Imagen."

MsgNoImage == "No se pudo generar la imagen."

MsgStart == "Error al iniciar la tarea en Replicate."

MsgPoll == "Error al consultar el estado de la tarea."

MsgFailedPrefix == "La tarea en Replicate falló: "

\* messages of the errors the runtime raises itself
MsgSyntaxError == "SyntaxError: Unexpected token in JSON"

MsgTypeError == "TypeError: cannot read properties of undefined or null"

MsgFetchError == "FetchError: request failed"

MsgInvalidJson == "FetchError: invalid json response body"

(* ------------------------------------------------------------------ *)
(* Strings that are inspected character by character                    *)
(* ------------------------------------------------------------------ *)
ToolTypeStrings == {"gemini", "gemini-image", "gem", "replicate-a", "replica", "hybrid-mastering", "hybrid-mastering2"}

Chars(s) ==
    CASE s = "gemini" -> <<"g","e","m","i","n","i">>
      [] s = "gemini-image" -> <<"g","e","m","i","n","i","-","i","m","a","g","e">>
      [] s = "gem" -> <<"g","e","m">>
      [] s = "replicate" -> <<"r","e","p","l","i","c","a","t","e">>
      [] s = "replicate-a" -> <<"r","e","p","l","i","c","a","t","e","-","a">>
      [] s = "replica" -> <<"r","e","p","l","i","c","a">>
      [] s = "hybrid-mastering" -> <<"h","y","b","r","i","d","-","m","a","s","t","e","r","i","n","g">>
      [] s = "hybrid-mastering2" -> <<"h","y","b","r","i","d","-","m","a","s","t","e","r","i","n","g","2">>

\* String.prototype.startsWith
startsWith(s, prefix) ==
    /\ Len(Chars(s)) >= Len(Chars(prefix))
    /\ SubSeq(Chars(s), 1, Len(Chars(prefix))) = Chars(prefix)

(* ------------------------------------------------------------------ *)
(* The inbound request                                                  *)
(* ------------------------------------------------------------------ *)
NoPayload == [present |-> FALSE, reference_audio |-> undefined, userTrack |-> undefined, referenceTrack |-> undefined]

Payloads ==
    {NoPayload} \cup
    [present : {TRUE}, reference_audio : {undefined, "ref-a.wav"}, userTrack : {"track.wav"},
     referenceTrack : {undefined, "ref-t.wav"}]

NoInputs == [present |-> FALSE, prompt |-> undefined, model |-> undefined, replicate_payload |-> NoPayload]

InputsValues ==
    {NoInputs} \cup [present : {TRUE}, prompt : {"a prompt"}, model : {"model-v1"}, replicate_payload : Payloads]

\* what JSON.parse(event.body) yields: a SyntaxError, null, or an object
ParsedBodies ==
    {[json |-> "invalid", toolType |-> undefined, inputs |-> NoInputs],
     [json |-> "null", toolType |-> undefined, inputs |-> NoInputs]} \cup
    [json : {"object"}, toolType : ToolTypeStrings \cup {undefined, NotAString}, inputs : InputsValues]

Events == [httpMethod : {"POST", "GET"}, body : ParsedBodies]

(* ------------------------------------------------------------------ *)
(* What the prediction provider may answer                              *)
(* ------------------------------------------------------------------ *)
NoBody == [json |-> "none", status |-> undefined, id |-> undefined, output |-> undefined, error |-> undefined, detail |-> undefined]

\* response.json() rejects
InvalidJson == [NoBody EXCEPT !.json = "invalid"]

\* response.json() resolves to null
NullJson == [NoBody EXCEPT !.json = "null"]

JobStatuses == {undefined, "processing", "succeeded", "failed"}

JobIds == {undefined, "job-1", "job-2"}

Job(status, id, output) ==
    [json |-> "object", status |-> status, id |-> id, output |-> output, error |-> undefined, detail |-> undefined]

\* the bodies a response may carry: unreadable ones, jobs in every status with and
\* without id, output and error, and bodies with a detail field
PredictionBodies ==
    {InvalidJson, NullJson}
    \cup {Job("processing", id, undefined) : id \in JobIds}
    \cup {Job("processing", "job-1", "partial-url"), Job(undefined, "job-1", undefined)}
    \cup {Job("succeeded", "job-1", output) : output \in {undefined, null, "result-url"}}
    \cup {Job("succeeded", "job-2", "result-url")}
    \cup {[Job("failed", "job-1", undefined) EXCEPT !.error = e] : e \in {undefined, "OOM"}}
    \cup {[Job(status, "job-1", undefined) EXCEPT !.detail = d] :
             status \in {"processing", "succeeded"}, d \in {"", "no such version"}}

\* fetch() rejects: no response at all
NetworkError == [net |-> "error", status |-> 0, body |-> NoBody]

ReplicateResponses ==
    {NetworkError} \cup [net : {"ok"}, status : {HttpOk, HttpCreated, 500}, body : PredictionBodies]

(* ------------------------------------------------------------------ *)
(* Events of an invocation, in the order they happen                    *)
(* ------------------------------------------------------------------ *)
Call(api, args) == [ev |-> "call", api |-> api, info |-> args]

Sleep(ms) == [ev |-> "sleep", api |-> "setTimeout", info |-> [ms |-> ms]]

\* what is kept of a received response: its transport outcome and the job status it carries
Received(api, r, jobStatus) ==
    [ev |-> "response", api |-> api,
     info |-> [net |-> r.net, status |-> r.status, json |-> r.body.json, jobStatus |-> jobStatus]]

\* the positions of the trace `t` that hold an event `ev` of `api`
At(t, ev, api) == {i \in 1..Len(t) : t[i].ev = ev /\ t[i].api = api}

Count(t, ev, api) == Cardinality(At(t, ev, api))

(* ------------------------------------------------------------------ *)
(* The prediction logic.  Its state: where it is suspended (pc), the    *)
(* local `prediction`, what it returned or threw (value), and the       *)
(* events of its last step (emit).                                      *)
(* ------------------------------------------------------------------ *)
Idle == [pc |-> "idle", prediction |-> NoBody, value |-> undefined, emit |-> <<>>]

Threw(prediction, message) == [pc |-> "threw", prediction |-> prediction, value |-> message, emit |-> <<>>]

Returned(prediction, v) == [pc |-> "returned", prediction |-> prediction, value |-> v, emit |-> <<>>]

Suspended(pc, prediction, events) == [pc |-> pc, prediction |-> prediction, value |-> undefined, emit |-> events]

(* ---- the prediction branch of exports.handler (lines 46-71) ---- *)

\* lines 47-54: the submit call; reading inputs.model of a missing inputs throws
replicate_fetchStart(inputs) ==
    IF ~inputs.present THEN Threw(NoBody, MsgTypeError)
    ELSE Suspended("awaitStart", NoBody,
            <<Call("start", [version |-> inputs.model, input |-> inputs.replicate_payload, apiKey |-> REPLICATE_API_KEY])>>)

\* mutant: the loop ends on 'failed' only
replicate_while_untilFailed(prediction) ==
    IF prediction.json = "null" THEN Threw(prediction, MsgTypeError)
    ELSE IF prediction.status # "failed"
    THEN Suspended("sleeping", prediction, <<Sleep(PollIntervalMs)>>)
    ELSE Threw(prediction, MsgFailedPrefix \o toStr(prediction.error))

\* lines 59-60 and 68-70: the loop test on `prediction`, then the sleep or the end
replicate_while(prediction) ==
    IF prediction.json = "null" THEN Threw(prediction, MsgTypeError)
    ELSE IF prediction.status # "succeeded" /\ prediction.status # "failed"
    THEN Suspended("sleeping", prediction, <<Sleep(PollIntervalMs)>>)
    ELSE IF prediction.status = "failed" THEN Threw(prediction, MsgFailedPrefix \o toStr(prediction.error))
    ELSE Returned(prediction, prediction.output)

\* mutant: the first poll follows the submit at once, the sleep comes after it
replicate_onStart_pollsAtOnce(m, startResponse) ==
    IF startResponse.net = "error" THEN Threw(m.prediction, MsgFetchError)
    ELSE IF startResponse.body.json = "invalid" THEN Threw(m.prediction, MsgInvalidJson)
    ELSE LET prediction == startResponse.body IN
         IF startResponse.status # HttpCreated
         THEN IF prediction.json = "null" THEN Threw(prediction, MsgTypeError)
              ELSE Threw(prediction, Or(prediction.detail, MsgStart))
         ELSE IF prediction.json = "null" THEN Threw(prediction, MsgTypeError)
         ELSE IF prediction.status # "succeeded" /\ prediction.status # "failed"
         THEN Suspended("sleeping", prediction, <<>>)
         ELSE replicate_while(prediction)

\* lines 56-57
replicate_onStart(m, startResponse) ==
    IF startResponse.net = "error" THEN Threw(m.prediction, MsgFetchError)
    ELSE IF startResponse.body.json = "invalid" THEN Threw(m.prediction, MsgInvalidJson)
    ELSE LET prediction == startResponse.body IN
         IF startResponse.status # HttpCreated
         THEN IF prediction.json = "null" THEN Threw(prediction, MsgTypeError)
              ELSE Threw(prediction, Or(prediction.detail, MsgStart))
         ELSE replicate_while(prediction)

\* mutant: the poll is issued but not awaited, the loop goes on to its next sleep
replicate_fetchPoll_notAwaited(m) ==
    Suspended("sleeping", m.prediction, <<Call("poll", [id |-> toStr(m.prediction.id), apiKey |-> REPLICATE_API_KEY])>>)

\* lines 61-63: the timer has fired, the status of job `prediction.id` is fetched
replicate_fetchPoll(m) ==
    Suspended("awaitPoll", m.prediction, <<Call("poll", [id |-> toStr(m.prediction.id), apiKey |-> REPLICATE_API_KEY])>>)

\* mutant: the loop gives up on the first poll that finds the job unfinished
replicate_onPoll_oneAttempt(m, pollResponse) ==
    IF pollResponse.net = "error" THEN Threw(m.prediction, MsgFetchError)
    ELSE IF pollResponse.body.json = "invalid" THEN Threw(m.prediction, MsgInvalidJson)
    ELSE LET prediction == pollResponse.body IN
         IF pollResponse.status # HttpOk
         THEN IF prediction.json = "null" THEN Threw(prediction, MsgTypeError)
              ELSE Threw(prediction, Or(prediction.detail, MsgPoll))
         ELSE IF prediction.json = "null" THEN Threw(prediction, MsgTypeError)
         ELSE IF prediction.status = "failed" THEN Threw(prediction, MsgFailedPrefix \o toStr(prediction.error))
         ELSE IF prediction.status = "succeeded" THEN Returned(prediction, prediction.output)
         ELSE Threw(prediction, "Timeout")

\* lines 64-66
replicate_onPoll(m, pollResponse) ==
    IF pollResponse.net = "error" THEN Threw(m.prediction, MsgFetchError)
    ELSE IF pollResponse.body.json = "invalid" THEN Threw(m.prediction, MsgInvalidJson)
    ELSE LET prediction == pollResponse.body IN
         IF pollResponse.status # HttpOk
         THEN IF prediction.json = "null" THEN Threw(prediction, MsgTypeError)
              ELSE Threw(prediction, Or(prediction.detail, MsgPoll))
         ELSE replicate_while(prediction)

(* ---- callReplicateAPI (lines 120-137) ---- *)

\* lines 121-125
callReplicateAPI_fetchStart(model, input, apiKey) ==
    Suspended("awaitStart", NoBody, <<Call("start", [version |-> model, input |-> input, apiKey |-> apiKey])>>)

\* mutant: a job that ended 'failed' is treated like one that succeeded
callReplicateAPI_while_failedIgnored(prediction) ==
    IF prediction.json = "null" THEN Threw(prediction, MsgTypeError)
    ELSE IF prediction.status # "succeeded" /\ prediction.status # "failed"
    THEN Suspended("sleeping", prediction, <<Sleep(PollIntervalMs)>>)
    ELSE Returned(prediction, prediction.output)

\* lines 129-130 and 135-136
callReplicateAPI_while(prediction) ==
    IF prediction.json = "null" THEN Threw(prediction, MsgTypeError)
    ELSE IF prediction.status # "succeeded" /\ prediction.status # "failed"
    THEN Suspended("sleeping", prediction, <<Sleep(PollIntervalMs)>>)
    ELSE IF prediction.status = "failed" THEN Threw(prediction, MsgFailedPrefix \o toStr(prediction.error))
    ELSE Returned(prediction, prediction.output)

\* mutant: the submit is accepted on every 2xx status
callReplicateAPI_onStart_any2xx(m, startResponse) ==
    IF startResponse.net = "error" THEN Threw(m.prediction, MsgFetchError)
    ELSE IF startResponse.body.json = "invalid" THEN Threw(m.prediction, MsgInvalidJson)
    ELSE LET prediction == startResponse.body IN
         IF ~(startResponse.status >= 200 /\ startResponse.status < 300)
         THEN IF prediction.json = "null" THEN Threw(prediction, MsgTypeError)
              ELSE Threw(prediction, Or(prediction.detail, MsgStart))
         ELSE callReplicateAPI_while(prediction)

\* lines 126-127
callReplicateAPI_onStart(m, startResponse) ==
    IF startResponse.net = "error" THEN Threw(m.prediction, MsgFetchError)
    ELSE IF startResponse.body.json = "invalid" THEN Threw(m.prediction, MsgInvalidJson)
    ELSE LET prediction == startResponse.body IN
         IF startResponse.status # HttpCreated
         THEN IF prediction.json = "null" THEN Threw(prediction, MsgTypeError)
              ELSE Threw(prediction, Or(prediction.detail, MsgStart))
         ELSE callReplicateAPI_while(prediction)

\* line 131
callReplicateAPI_fetchPoll(m, apiKey) ==
    Suspended("awaitPoll", m.prediction, <<Call("poll", [id |-> toStr(m.prediction.id), apiKey |-> apiKey])>>)

\* mutant: a poll that was not answered 200 is tried again after another sleep
callReplicateAPI_onPoll_retried(m, pollResponse) ==
    IF pollResponse.net = "error" THEN Threw(m.prediction, MsgFetchError)
    ELSE IF pollResponse.body.json = "invalid" THEN Threw(m.prediction, MsgInvalidJson)
    ELSE LET prediction == pollResponse.body IN
         IF pollResponse.status # HttpOk
         THEN Suspended("sleeping", m.prediction, <<Sleep(PollIntervalMs)>>)
         ELSE callReplicateAPI_while(prediction)

\* lines 132-134
callReplicateAPI_onPoll(m, pollResponse) ==
    IF pollResponse.net = "error" THEN Threw(m.prediction, MsgFetchError)
    ELSE IF pollResponse.body.json = "invalid" THEN Threw(m.prediction, MsgInvalidJson)
    ELSE LET prediction == pollResponse.body IN
         IF pollResponse.status # HttpOk
         THEN IF prediction.json = "null" THEN Threw(prediction, MsgTypeError)
              ELSE Threw(prediction, Or(prediction.detail, MsgPoll))
         ELSE callReplicateAPI_while(prediction)

(* ------------------------------------------------------------------ *)
(* What the generation provider may answer                              *)
(* ------------------------------------------------------------------ *)
Texts == {"", "Plan", "Foto **Tip de Oro usa luz", "**Tip de Oro primero", "A **Tip de Oro B **Tip de Oro C"}

\* a text cut at every occurrence of the marker, the marker kept as a piece of its own
Pieces(text) ==
    CASE text = "" -> <<"">>
      [] text = "Plan" -> <<"Plan">>
      [] text = "Foto **Tip de Oro usa luz" -> <<"Foto ", TipMarker, " usa luz">>
      [] text = "**Tip de Oro primero" -> <<"", TipMarker, " primero">>
      [] text = "A **Tip de Oro B **Tip de Oro C" -> <<"A ", TipMarker, " B ", TipMarker, " C">>

\* text.split(marker)[0]: what precedes the first occurrence of the marker
RECURSIVE UpToMarker(_, _)
UpToMarker(pieces, marker) ==
    IF pieces = <<>> \/ Head(pieces) = marker THEN ""
    ELSE Head(pieces) \o UpToMarker(Tail(pieces), marker)

\* mutant: the text is passed on whole
splitFirst_whole(text, marker) == text

splitFirst(text, marker) == UpToMarker(Pieces(text), marker)

GNoBody == [json |-> "none", message |-> undefined, candidates |-> "missing", text |-> undefined]

GeminiBodies ==
    {[GNoBody EXCEPT !.json = "invalid"], [GNoBody EXCEPT !.json = "null"]}
    \cup [json : {"object"}, message : {undefined, "quota exceeded"}, candidates : {"missing"}, text : {undefined}]
    \cup [json : {"object"}, message : {undefined}, candidates : {"present"}, text : Texts \cup {undefined}]

GeminiResponses ==
    {[net |-> "error", status |-> 0, body |-> GNoBody]}
    \cup [net : {"ok"}, status : {HttpOk, 429}, body : GeminiBodies]

INoBody == [json |-> "none", message |-> undefined, predictions |-> "missing", bytesBase64Encoded |-> undefined]

ImageBodies ==
    {[INoBody EXCEPT !.json = "invalid"], [INoBody EXCEPT !.json = "null"]}
    \cup [json : {"object"}, message : {undefined, "quota exceeded"}, predictions : {"missing", "empty"},
          bytesBase64Encoded : {undefined}]
    \cup [json : {"object"}, message : {undefined}, predictions : {"present"},
          bytesBase64Encoded : {undefined, "", "iVBORw0KGgo="}]

ImageResponses ==
    {[net |-> "error", status |-> 0, body |-> INoBody]}
    \cup [net : {"ok"}, status : {HttpOk, 429}, body : ImageBodies]

\* Response.ok of node-fetch
ok(response) == response.status >= 200 /\ response.status < 300

\* the outcome of a step that either throws (value is the message) or yields a value
Throw(message) == [threw |-> TRUE, value |-> message]

Yield(v) == [threw |-> FALSE, value |-> v]

\* lines 22-34: the answer of the text endpoint in the generation branch
gemini_onResponse(response) ==
    IF response.net = "error" THEN Throw(MsgFetchError)
    ELSE IF response.body.json = "invalid" THEN Throw(MsgInvalidJson)
    ELSE IF response.body.json = "null" THEN Throw(MsgTypeError)
    ELSE IF ~ok(response) THEN Throw(Or(response.body.message, MsgGemini))
    ELSE IF response.body.candidates = "missing" THEN Throw(MsgTypeError)
    ELSE Yield(response.body.text)

\* mutant: the status of the answer is not looked at
callGeminiAPI_onResponse_statusIgnored(response) ==
    IF response.net = "error" THEN Throw(MsgFetchError)
    ELSE IF response.body.json = "invalid" THEN Throw(MsgInvalidJson)
    ELSE IF response.body.json = "null" THEN Throw(MsgTypeError)
    ELSE IF response.body.candidates = "missing" THEN Throw(MsgTypeError)
    ELSE Yield(response.body.text)

\* lines 111-117: the same in callGeminiAPI
callGeminiAPI_onResponse(response) ==
    IF response.net = "error" THEN Throw(MsgFetchError)
    ELSE IF response.body.json = "invalid" THEN Throw(MsgInvalidJson)
    ELSE IF response.body.json = "null" THEN Throw(MsgTypeError)
    ELSE IF ~ok(response) THEN Throw(Or(response.body.message, MsgGemini))
    ELSE IF response.body.candidates = "missing" THEN Throw(MsgTypeError)
    ELSE Yield(response.body.text)

\* lines 96-105: the answer of the image endpoint
callImageAPI_onResponse(response) ==
    IF response.net = "error" THEN Throw(MsgFetchError)
    ELSE IF response.body.json = "invalid" THEN Throw(MsgInvalidJson)
    ELSE IF response.body.json = "null" THEN Throw(MsgTypeError)
    ELSE IF ~ok(response) THEN Throw(Or(response.body.message, MsgImagen))
    ELSE IF response.body.predictions = "present" /\ Truthy(response.body.bytesBase64Encoded)
    THEN Yield("data:image/png;base64," \o response.body.bytesBase64Encoded)
    ELSE Throw(MsgNoImage)

\* line 76: the prompt of the mastering brief
briefPrompt(replicate_payload) ==
    "Actúa como un ingeniero de mastering de clase mundial. Voy a masterizar una canción. "
    \o (IF Truthy(replicate_payload.reference_audio)
        THEN "Quiero que suene como la canción de referencia que he subido."
        ELSE "No tengo una referencia.")
    \o " Describe en 3 puntos clave un plan de mastering para darle potencia, claridad y un carácter comercial."

\* mutant: every method is let through
methodAllowed_any(httpMethod) == httpMethod \in {"POST", "GET"}

\* line 7
methodAllowed(httpMethod) == httpMethod = "POST"

\* mutant: the generation branch is taken for the exact string 'gemini' only
Branch_geminiExact(toolType) ==
    IF toolType = "gemini" THEN "gemini"
    ELSE IF startsWith(toolType, "replicate") THEN "replicate"
    ELSE IF toolType = "hybrid-mastering" THEN "hybrid"
    ELSE "none"

\* lines 18, 46, 74: the branch a toolType string is dispatched to
Branch(toolType) ==
    IF startsWith(toolType, "gemini") THEN "gemini"
    ELSE IF startsWith(toolType, "replicate") THEN "replicate"
    ELSE IF toolType = "hybrid-mastering" THEN "hybrid"
    ELSE "none"

(* ------------------------------------------------------------------ *)
(* The state of one invocation                                          *)
(* ------------------------------------------------------------------ *)
VARIABLES
    event,      \* the request: httpMethod and what JSON.parse makes of its body
    pc,         \* the await the handler is suspended at
    job,        \* the prediction logic: its pc, its local `prediction`, its result
    brief,      \* the local `brief` of the hybrid branch
    lastResponse, \* the locals response / startResponse / pollResponse: the last settled fetch
    trace,      \* the calls, responses, sleeps and parses so far, in order
    response,   \* what the handler returned
    twin        \* a run of callReplicateAPI beside the prediction branch (SpecEq only)

vars == <<event, pc, job, brief, lastResponse, trace, response, twin>>

Pending == [kind |-> "pending", statusCode |-> 0, body |-> JSONstringify([error |-> undefined])]

\* mutant: an unrecognised toolType is answered with a client error
ReturnsUndefined_badRequest ==
    [kind |-> "object", statusCode |-> 400, body |-> JSONstringify([error |-> "Unknown toolType"])]

\* the handler ends without a return statement (line 90)
ReturnsUndefined == [kind |-> "undefined", statusCode |-> 0, body |-> JSONstringify([error |-> undefined])]

Return(statusCode, o) == [kind |-> "object", statusCode |-> statusCode, body |-> JSONstringify(o)]

\* mutant: the error is thrown on and the handler's promise rejects
Catch_rethrown(message) == [kind |-> "rejected", statusCode |-> 0, body |-> JSONstringify([error |-> message])]

\* lines 86-89
Catch(message) == Return(500, [error |-> message])

Parse == [ev |-> "parse", api |-> "JSON.parse", info |-> [ms |-> 0]]

Init ==
    /\ event \in Events
    /\ pc = "entry"
    /\ job = Idle
    /\ brief = undefined
    /\ lastResponse = NetworkError
    /\ trace = <<>>
    /\ response = Pending
    /\ twin = [m |-> Idle, effects |-> <<>>]

\* the handler returns `r` after causing `events`
Finish(events, r) ==
    /\ pc' = "done"
    /\ trace' = trace \o events
    /\ response' = r

(* ------------------------------------------------------------------ *)
(* The actions: one per run of the handler between two awaits           *)
(* ------------------------------------------------------------------ *)

\* lines 5-26, 46-54, 74-77: from the entry to the first await
handler ==
    /\ pc = "entry"
    /\ LET body == event.body
           toolType == body.toolType
           inputs == body.inputs
       IN
       IF ~methodAllowed(event.httpMethod)
       THEN Finish(<<>>, Return(405, [error |-> MsgMethodNotAllowed])) /\ UNCHANGED <<job, brief>>
       ELSE IF body.json = "invalid"
       THEN Finish(<<Parse>>, Catch(MsgSyntaxError)) /\ UNCHANGED <<job, brief>>
       ELSE IF body.json = "null" \/ toolType \in {undefined, NotAString}
       THEN Finish(<<Parse>>, Catch(MsgTypeError)) /\ UNCHANGED <<job, brief>>
       ELSE IF Branch(toolType) = "gemini"
       THEN IF ~inputs.present
            THEN Finish(<<Parse>>, Catch(MsgTypeError)) /\ UNCHANGED <<job, brief>>
            ELSE /\ pc' = "awaitGemini"
                 /\ trace' = trace \o <<Parse, Call("gemini", [prompt |-> inputs.prompt, apiKey |-> GEMINI_API_KEY])>>
                 /\ UNCHANGED <<job, brief, response>>
       ELSE IF Branch(toolType) = "replicate"
       THEN LET m == replicate_fetchStart(inputs) IN
            /\ job' = m
            /\ brief' = brief
            /\ IF m.pc = "threw"
               THEN Finish(<<Parse>>, Catch(m.value))
               ELSE pc' = "replicate" /\ trace' = trace \o <<Parse>> \o m.emit /\ response' = response
       ELSE IF Branch(toolType) = "hybrid"
       THEN IF ~inputs.present \/ ~inputs.replicate_payload.present
            THEN Finish(<<Parse>>, Catch(MsgTypeError)) /\ UNCHANGED <<job, brief>>
            ELSE /\ pc' = "awaitBrief"
                 /\ trace' = trace \o <<Parse, Call("gemini", [prompt |-> briefPrompt(inputs.replicate_payload),
                                                               apiKey |-> GEMINI_API_KEY])>>
                 /\ UNCHANGED <<job, brief, response>>
       ELSE Finish(<<Parse>>, ReturnsUndefined) /\ UNCHANGED <<job, brief>>
    /\ UNCHANGED <<event, lastResponse>>

\* lines 22-42: the text endpoint answers the generation branch
GeminiResponds(r) ==
    /\ pc = "awaitGemini"
    /\ LET o == gemini_onResponse(r)
           toolType == event.body.toolType
           got == Received("gemini", r, undefined)
       IN
       IF o.threw THEN Finish(<<got>>, Catch(o.value))
       ELSE IF toolType = "gemini-image"
       THEN IF o.value = undefined
            THEN Finish(<<got>>, Catch(MsgTypeError))
            ELSE /\ pc' = "awaitImage"
                 /\ trace' = trace \o <<got, Call("image", [prompt |-> splitFirst(o.value, TipMarker),
                                                            apiKey |-> GEMINI_API_KEY])>>
                 /\ response' = response
       ELSE Finish(<<got>>, Return(200, [type |-> toolType, data |-> o.value]))
    /\ lastResponse' = r
    /\ UNCHANGED <<event, job, brief>>

\* lines 38-39 and 96-105: the image endpoint answers
ImageResponds(r) ==
    /\ pc = "awaitImage"
    /\ LET o == callImageAPI_onResponse(r)
           got == Received("image", r, undefined)
       IN
       IF o.threw THEN Finish(<<got>>, Catch(o.value))
       ELSE Finish(<<got>>, Return(200, [type |-> "gemini-image", data |-> o.value]))
    /\ lastResponse' = r
    /\ UNCHANGED <<event, job, brief>>

\* lines 77-80 and 111-125: the text endpoint answers the hybrid branch
BriefResponds(r) ==
    /\ pc = "awaitBrief"
    /\ LET o == callGeminiAPI_onResponse(r)
           payload == event.body.inputs.replicate_payload
           got == Received("gemini", r, undefined)
           m == callReplicateAPI_fetchStart(MasteringModel,
                    [input_audio |-> payload.userTrack, reference_audio |-> payload.referenceTrack],
                    REPLICATE_API_KEY)
       IN
       IF o.threw THEN Finish(<<got>>, Catch(o.value)) /\ UNCHANGED <<job, brief>>
       ELSE /\ brief' = o.value
            /\ job' = m
            /\ pc' = "callReplicateAPI"
            /\ trace' = trace \o <<got>> \o m.emit
            /\ response' = response
    /\ lastResponse' = r
    /\ UNCHANGED event

\* the prediction logic has made the step to `m` after `events`: lines 68-70,
\* 80-82 and 86-89 when it has ended
JobStep(m, events) ==
    /\ job' = m
    /\ trace' = trace \o events \o m.emit
    /\ IF m.pc = "threw" THEN pc' = "done" /\ response' = Catch(m.value)
       ELSE IF m.pc = "returned"
       THEN /\ pc' = "done"
            /\ response' = IF pc = "replicate"
                           THEN Return(200, [type |-> event.body.toolType, data |-> m.value])
                           ELSE Return(200, [type |-> "hybrid-mastering", brief |-> brief, audioUrl |-> m.value])
       ELSE pc' = pc /\ response' = response
    /\ UNCHANGED <<event, brief>>

\* lines 56-60 and 126-130: the submit call is answered
StartResponds(r) ==
    /\ pc \in {"replicate", "callReplicateAPI"}
    /\ job.pc = "awaitStart"
    /\ JobStep(IF pc = "replicate" THEN replicate_onStart(job, r) ELSE callReplicateAPI_onStart(job, r),
               <<Received("start", r, r.body.status)>>)
    /\ lastResponse' = r

\* lines 60-63 and 130-131: the sleep is over
TimerFires ==
    /\ pc \in {"replicate", "callReplicateAPI"}
    /\ job.pc = "sleeping"
    /\ JobStep(IF pc = "replicate" THEN replicate_fetchPoll(job) ELSE callReplicateAPI_fetchPoll(job, REPLICATE_API_KEY),
               <<>>)
    /\ UNCHANGED lastResponse

\* lines 64-66 and 132-134: a poll is answered; the provider reports a job as
\* unfinished at most MaxPolls times
PollResponds(r) ==
    /\ pc \in {"replicate", "callReplicateAPI"}
    /\ job.pc = "awaitPoll"
    /\ LET m == IF pc = "replicate" THEN replicate_onPoll(job, r) ELSE callReplicateAPI_onPoll(job, r) IN
       /\ m.pc = "sleeping" => Count(trace, "call", "poll") < MaxPolls
       /\ JobStep(m, <<Received("poll", r, r.body.status)>>)
    /\ lastResponse' = r

Next ==
    \/ handler /\ UNCHANGED twin
    \/ \E r \in GeminiResponses : GeminiResponds(r) /\ UNCHANGED twin
    \/ \E r \in ImageResponses : ImageResponds(r) /\ UNCHANGED twin
    \/ \E r \in GeminiResponses : BriefResponds(r) /\ UNCHANGED twin
    \/ \E r \in ReplicateResponses : StartResponds(r) /\ UNCHANGED twin
    \/ TimerFires /\ UNCHANGED twin
    \/ \E r \in ReplicateResponses : PollResponds(r) /\ UNCHANGED twin

Spec == Init /\ [][Next]_vars

(* ------------------------------------------------------------------ *)
(* The prediction branch and callReplicateAPI side by side: a request   *)
(* for the prediction tool is handled by the branch, and callReplicateAPI *)
(* is called with the same model, input and key and is given the same    *)
(* answers at the same steps.                                           *)
(* ------------------------------------------------------------------ *)
TwinStep(m) == twin' = [m |-> m, effects |-> twin.effects \o m.emit]

InitEq ==
    /\ Init
    /\ event.httpMethod = "POST"
    /\ event.body.json = "object"
    /\ event.body.toolType = "replicate-a"
    /\ event.body.inputs.present

EqCall ==
    /\ handler
    /\ TwinStep(callReplicateAPI_fetchStart(event.body.inputs.model, event.body.inputs.replicate_payload,
                                            REPLICATE_API_KEY))

EqStartResponds(r) == StartResponds(r) /\ TwinStep(callReplicateAPI_onStart(twin.m, r))

EqTimerFires == TimerFires /\ TwinStep(callReplicateAPI_fetchPoll(twin.m, REPLICATE_API_KEY))

EqPollResponds(r) == PollResponds(r) /\ TwinStep(callReplicateAPI_onPoll(twin.m, r))

NextEq ==
    \/ EqCall
    \/ \E r \in ReplicateResponses : EqStartResponds(r)
    \/ EqTimerFires
    \/ \E r \in ReplicateResponses : EqPollResponds(r)

SpecEq == InitEq /\ [][NextEq]_vars

\* the event loop resumes the handler whenever a timer has fired or a fetch has
\* settled, and the provider settles every call
FairSpec == Spec /\ WF_vars(Next)

(* ------------------------------------------------------------------ *)
(* Properties                                                           *)
(* ------------------------------------------------------------------ *)
Terminal(status) == status \in {"succeeded", "failed"}

\* the responses to the submit call and to the polls, in the order received
RECURSIVE Ordered(_)
Ordered(S) == IF S = {} THEN <<>>
              ELSE LET m == CHOOSE x \in S : \A y \in S : x <= y IN <<m>> \o Ordered(S \ {m})

Answers(api) == [i \in 1..Count(trace, "response", api) |-> trace[Ordered(At(trace, "response", api))[i]].info]

StartAnswers == Answers("start")

PollAnswers == Answers("poll")

\* a response with the expected HTTP status whose body is a job
JobAnswer(a, httpStatus) == a.net = "ok" /\ a.status = httpStatus /\ a.json = "object"

\* C1: a submit answered 201 with an unfinished job, followed by k polls all
\* answered 200, the first k-1 with an unfinished job and the k-th with status
\* 'succeeded' and output o, ends with exactly k calls of the status endpoint and
\* the result o; a submit answered with a finished job is followed by no poll.
C1_PollsUntilSucceeded ==
    LET k == Len(PollAnswers) IN
    /\ (/\ Len(StartAnswers) = 1
        /\ JobAnswer(StartAnswers[1], HttpCreated) /\ ~Terminal(StartAnswers[1].jobStatus)
        /\ k >= 1
        /\ \A i \in 1..k : JobAnswer(PollAnswers[i], HttpOk)
        /\ \A i \in 1..(k - 1) : ~Terminal(PollAnswers[i].jobStatus)
        /\ PollAnswers[k].jobStatus = "succeeded")
       => /\ Count(trace, "call", "poll") = k
          /\ job.pc = "returned"
          /\ job.value = lastResponse.body.output
          /\ pc = "done"
    /\ (/\ Len(StartAnswers) = 1
        /\ JobAnswer(StartAnswers[1], HttpCreated) /\ Terminal(StartAnswers[1].jobStatus))
       => Count(trace, "call", "poll") = 0 /\ pc = "done"

\* a run through two polls, 'processing' then 'succeeded' with output "result-url"
C1_Witness ==
    /\ Len(StartAnswers) = 1 /\ JobAnswer(StartAnswers[1], HttpCreated)
    /\ Len(PollAnswers) = 2
    /\ PollAnswers[1] = [net |-> "ok", status |-> HttpOk, json |-> "object", jobStatus |-> "processing"]
    /\ PollAnswers[2] = [net |-> "ok", status |-> HttpOk, json |-> "object", jobStatus |-> "succeeded"]
    /\ Count(trace, "call", "poll") = 2
    /\ job.pc = "returned" /\ job.value = "result-url"

\* the invocation went through the prediction logic, inline or via callReplicateAPI
InPrediction == job.pc # "idle"

\* the last answer of the prediction provider was accepted (201 to the submit,
\* 200 to a poll, a JSON object) and carries the job status `status`
LoopEndedOn(status) ==
    /\ job.pc \in {"returned", "threw"}
    /\ Len(StartAnswers) = 1
    /\ lastResponse.net = "ok" /\ lastResponse.body.json = "object"
    /\ lastResponse.status = (IF Len(PollAnswers) = 0 THEN HttpCreated ELSE HttpOk)
    /\ lastResponse.body.status = status

\* C2: when the poll loop ends on 'failed' the adapter throws the message that
\* embeds the job's error field and the handler answers 500; when it ends on
\* 'succeeded' the result is the output of that last fetched job and the handler
\* answers 200; a 200 of the prediction or hybrid tool implies that a job status
\* 'succeeded' was received.
C2_TerminalHandling ==
    /\ LoopEndedOn("failed") =>
          /\ job.pc = "threw"
          /\ job.value = MsgFailedPrefix \o toStr(lastResponse.body.error)
          /\ response.kind = "object" /\ response.statusCode = 500
          /\ response.body = [error |-> job.value]
    /\ LoopEndedOn("succeeded") =>
          /\ job.pc = "returned"
          /\ job.value = lastResponse.body.output
          /\ response.kind = "object" /\ response.statusCode = 200
          /\ lastResponse.body.output # undefined =>
                \/ "data" \in DOMAIN response.body /\ response.body.data = lastResponse.body.output
                \/ "audioUrl" \in DOMAIN response.body /\ response.body.audioUrl = lastResponse.body.output
    /\ (InPrediction /\ response.statusCode = 200) =>
          \E i \in At(trace, "response", "start") \cup At(trace, "response", "poll") :
              trace[i].info.jobStatus = "succeeded" /\ trace[i].info.net = "ok"

\* a job that is reported failed with error "OOM" on its second poll
C2_Witness ==
    /\ LoopEndedOn("failed")
    /\ Len(PollAnswers) = 2
    /\ lastResponse.body.error = "OOM"
    /\ response.statusCode = 500
    /\ response.body = [error |-> "La tarea en Replicate falló: OOM"]

\* the message the claims C3 and C4 expect of a rejected answer: the body's
\* detail field when it has one, else the fallback
DetailOr(body, fallback) ==
    IF body.json = "object" /\ Truthy(body.detail) THEN body.detail ELSE fallback

\* the last answer of the prediction provider is an answer to a poll / to the submit
LastIsPoll == Len(PollAnswers) >= 1 /\ Len(PollAnswers) = Count(trace, "call", "poll")

LastIsStart == Len(StartAnswers) = 1 /\ Count(trace, "call", "poll") = 0

\* the handler has answered 500 with the message `message`
Responds500(message) ==
    /\ pc = "done"
    /\ response.kind = "object" /\ response.statusCode = 500
    /\ response.body = [error |-> message]

\* C3: a poll answered with an HTTP status other than 200, whatever job status
\* its body carries, makes the adapter throw the body's detail field if present
\* and else the generic poll-failure message; the loop stops, no further poll is
\* issued and the handler answers 500.
C3_PollNot200 ==
    (LastIsPoll /\ lastResponse.net = "ok" /\ lastResponse.status # HttpOk) =>
        /\ job.pc = "threw"
        /\ job.value = DetailOr(lastResponse.body, MsgPoll)
        /\ Responds500(job.value)

\* the part of C3 that holds of every rejected poll: the loop stops at once and
\* the handler answers 500 with the message thrown
C3_PollNot200Aborts ==
    (LastIsPoll /\ lastResponse.net = "ok" /\ lastResponse.status # HttpOk) =>
        /\ job.pc = "threw"
        /\ Responds500(job.value)
        /\ lastResponse.body.json = "object" => job.value = DetailOr(lastResponse.body, MsgPoll)

\* C4: a submit answered with an HTTP status other than 201 (200 included) makes
\* the adapter throw the body's detail field if present and else the generic
\* start-failure message; no poll is issued and the handler answers 500.
C4_SubmitNot201 ==
    (LastIsStart /\ lastResponse.net = "ok" /\ lastResponse.status # HttpCreated) =>
        /\ job.pc = "threw"
        /\ job.value = DetailOr(lastResponse.body, MsgStart)
        /\ Responds500(job.value)

\* the part of C4 that holds of every rejected submit
C4_SubmitNot201Aborts ==
    (LastIsStart /\ lastResponse.net = "ok" /\ lastResponse.status # HttpCreated) =>
        /\ job.pc = "threw"
        /\ Responds500(job.value)
        /\ lastResponse.body.json = "object" => job.value = DetailOr(lastResponse.body, MsgStart)

\* the outbound calls among the first n events of the trace that are not yet answered
Outstanding(n) ==
    Cardinality({i \in 1..n : trace[i].ev = "call"}) - Cardinality({i \in 1..n : trace[i].ev = "response"})

\* C5: at every moment at most one outbound call of the invocation is
\* outstanding; the submit is issued and answered before any poll is issued, and
\* a poll is issued only when every earlier poll has been answered.
C5_OneCallAtATime ==
    /\ \A n \in 0..Len(trace) : Outstanding(n) \in {0, 1}
    /\ \A i \in At(trace, "call", "poll") :
          /\ \E c \in At(trace, "call", "start") : \E a \in At(trace, "response", "start") : c < a /\ a < i
          /\ Cardinality({j \in At(trace, "call", "poll") : j < i})
                = Cardinality({j \in At(trace, "response", "poll") : j < i})

\* two polls were issued and both were answered
C5_Witness ==
    /\ Count(trace, "call", "poll") = 2
    /\ Count(trace, "response", "poll") = 2
    /\ Count(trace, "call", "start") = 1

\* the poll loop is running: the handler sleeps or waits for the answer to a poll
InLoop(j) == j.pc \in {"sleeping", "awaitPoll"}

\* the answer `r` to a poll is accepted and carries a finished job
EndsLoop(r) == r.net = "ok" /\ r.status = HttpOk /\ r.body.json = "object" /\ Terminal(r.body.status)

\* the answer `r` to a poll is accepted and carries an unfinished job
KeepsLoop(r) == r.net = "ok" /\ r.status = HttpOk /\ r.body.json = "object" /\ ~Terminal(r.body.status)

\* C6 as stated: the loop ends only on a fetched status 'succeeded' or 'failed',
\* on a poll with a status other than 200 or on a transport error.
C6_LoopEndsOnlyOnStatusOrTransport ==
    [][(InLoop(job) /\ ~InLoop(job')) =>
          \/ EndsLoop(lastResponse')
          \/ lastResponse'.net = "error"
          \/ lastResponse'.net = "ok" /\ lastResponse'.status # HttpOk]_vars

\* C6, amended: the loop ends only on a fetched status 'succeeded' or 'failed' or
\* on a failed poll (status other than 200, transport error, or a body that is not
\* a JSON object); every accepted answer with an unfinished job, however many
\* came before, puts the handler back to sleep without a response, and a sleeping
\* handler always polls again; once the provider stops reporting the job as
\* unfinished the handler returns a response.
C6_LoopEnds ==
    /\ [][(InLoop(job) /\ ~InLoop(job')) =>
             \/ EndsLoop(lastResponse')
             \/ lastResponse'.net = "error"
             \/ lastResponse'.net = "ok" /\ lastResponse'.status # HttpOk
             \/ lastResponse'.net = "ok" /\ lastResponse'.body.json \in {"invalid", "null"}]_vars
    /\ [][(job.pc = "awaitPoll" /\ job' # job /\ KeepsLoop(lastResponse')) =>
             /\ job'.pc = "sleeping"
             /\ pc' = pc /\ response' = Pending
             /\ trace'[Len(trace')] = Sleep(PollIntervalMs)]_vars
    /\ [][job.pc = "sleeping" => job'.pc = "awaitPoll" /\ trace'[Len(trace')].api = "poll"]_vars
    /\ [](job.pc = "sleeping" => ENABLED TimerFires)
    /\ InLoop(job) ~> (pc = "done" /\ response.kind = "object")

\* the loop went round MaxPolls times and then ended on a finished job
C6_Witness ==
    /\ Count(trace, "call", "poll") = MaxPolls
    /\ \A i \in 1..(MaxPolls - 1) : PollAnswers[i].jobStatus = "processing"
    /\ EndsLoop(lastResponse)
    /\ pc = "done" /\ response.kind = "object"

\* the events of the trace that are outbound calls
Calls == {i \in 1..Len(trace) : trace[i].ev = "call"}

\* C7: a request whose method is not POST is answered 405 with
\* {error: 'Method Not Allowed'}, whatever its body and toolType; the body is not
\* parsed and no outbound call is issued.
C7_MethodNotAllowed ==
    event.httpMethod # "POST" =>
        /\ trace = <<>>
        /\ job = Idle
        /\ pc = "done" => response = [kind |-> "object", statusCode |-> 405, body |-> [error |-> "Method Not Allowed"]]
        /\ pc \in {"entry", "done"}

\* a GET that names the prediction tool with complete inputs has been answered
C7_Witness ==
    /\ event.httpMethod = "GET"
    /\ event.body.json = "object" /\ event.body.toolType = "replicate-a" /\ event.body.inputs.present
    /\ pc = "done" /\ response.statusCode = 405

\* the request lacks something the handler reads: an unparseable or null body, no
\* toolType string, no inputs for a recognised tool, no replicate_payload for the
\* hybrid tool
BadInput ==
    LET body == event.body IN
    \/ body.json \in {"invalid", "null"}
    \/ body.toolType \in {undefined, NotAString}
    \/ /\ body.toolType \in ToolTypeStrings
       /\ ~body.inputs.present
       /\ \/ startsWith(body.toolType, "gemini") \/ startsWith(body.toolType, "replicate")
          \/ body.toolType = "hybrid-mastering"
    \/ body.toolType = "hybrid-mastering" /\ ~body.inputs.replicate_payload.present

\* some outbound call has settled
HasAnswer == \E i \in 1..Len(trace) : trace[i].ev = "response"

\* the provider called last
LastApi == trace[CHOOSE i \in 1..Len(trace) : trace[i].ev = "response" /\ \A j \in (i + 1)..Len(trace) : trace[j].ev # "response"].api

\* the last outbound call failed, or what the handler extracts of its answer is missing
CallFailed ==
    /\ HasAnswer
    /\ \/ lastResponse.net = "error"
       \/ lastResponse.body.json \in {"invalid", "null"}
       \/ LastApi = "gemini" /\ (~ok(lastResponse) \/ lastResponse.body.candidates = "missing")
       \/ LastApi = "gemini" /\ event.body.toolType = "gemini-image" /\ lastResponse.body.text = undefined
       \/ LastApi = "image" /\ ~ok(lastResponse)
       \/ LastApi = "image" /\ ~(lastResponse.body.predictions = "present" /\ Truthy(lastResponse.body.bytesBase64Encoded))
       \/ LastApi = "start" /\ lastResponse.status # HttpCreated
       \/ LastApi = "poll" /\ lastResponse.status # HttpOk
       \/ LastApi \in {"start", "poll"} /\ lastResponse.body.status = "failed"

\* C8: a POST whose body cannot be parsed or lacks a required field, or in which
\* an outbound call or the extraction of its answer fails, is answered exactly
\* once, with status 500 and the body {error: <message of the error>}; the handler
\* does not reject and does not answer 200.
C8_FailuresAnswer500 ==
    (event.httpMethod = "POST" /\ pc # "entry" /\ (BadInput \/ CallFailed)) =>
        /\ pc = "done" /\ ~ENABLED Next
        /\ response.kind = "object"
        /\ response.statusCode = 500
        /\ DOMAIN response.body = {"error"}
        /\ event.body.json = "invalid" => response.body.error = MsgSyntaxError
        /\ (BadInput /\ event.body.json # "invalid") => response.body.error = MsgTypeError /\ Calls = {}
        /\ job.pc = "threw" => response.body.error = job.value
        /\ (HasAnswer /\ LastApi \in {"start", "poll"}) => job.pc = "threw"

\* the hybrid tool whose prediction job was reported failed after the brief was
\* generated
C8_Witness ==
    /\ event.httpMethod = "POST" /\ event.body.toolType = "hybrid-mastering"
    /\ brief = "Plan"
    /\ CallFailed /\ LastApi = "poll" /\ lastResponse.body.status = "failed"
    /\ response.statusCode = 500

GenerationCalls == At(trace, "call", "gemini") \cup At(trace, "call", "image")

PredictionCalls == At(trace, "call", "start") \cup At(trace, "call", "poll")

\* the first outbound call of the invocation
FirstCall == trace[CHOOSE i \in Calls : \A j \in Calls : i <= j]

\* C9: a toolType that starts with 'gemini' runs the generation branch and never
\* calls the prediction provider; otherwise one that starts with 'replicate' runs
\* the prediction branch and never calls the generation provider; otherwise
\* 'hybrid-mastering' runs the hybrid composition, which calls the generation
\* provider once with the brief prompt and then submits the mastering model; any
\* other toolType runs no branch.  No invocation shows the calls of two branches.
C9_Dispatch ==
    LET body == event.body
        inputs == body.inputs
        complete == inputs.present /\ (body.toolType = "hybrid-mastering" => inputs.replicate_payload.present)
    IN
    (event.httpMethod = "POST" /\ body.json = "object" /\ body.toolType \in ToolTypeStrings /\ pc # "entry") =>
        IF startsWith(body.toolType, "gemini")
        THEN /\ PredictionCalls = {} /\ job = Idle
             /\ inputs.present => Calls # {} /\ FirstCall = Call("gemini", [prompt |-> inputs.prompt, apiKey |-> GEMINI_API_KEY])
             /\ response.statusCode = 200 => response.body.type = body.toolType
        ELSE IF startsWith(body.toolType, "replicate")
        THEN /\ GenerationCalls = {} /\ brief = undefined
             /\ inputs.present => Calls # {} /\ FirstCall = Call("start", [version |-> inputs.model, input |-> inputs.replicate_payload,
                                                              apiKey |-> REPLICATE_API_KEY])
             /\ Count(trace, "call", "start") <= 1
             /\ response.statusCode = 200 => response.body.type = body.toolType
        ELSE IF body.toolType = "hybrid-mastering"
        THEN /\ complete => Calls # {} /\ FirstCall = Call("gemini", [prompt |-> briefPrompt(inputs.replicate_payload),
                                                        apiKey |-> GEMINI_API_KEY])
             /\ Count(trace, "call", "gemini") <= 1 /\ Count(trace, "call", "image") = 0
             /\ Count(trace, "call", "start") <= 1
             /\ \A i \in At(trace, "call", "start") : trace[i].info.version = MasteringModel
             /\ response.statusCode = 200 =>
                   /\ GenerationCalls # {} /\ PredictionCalls # {}
                   /\ response.body.type = "hybrid-mastering"
                   /\ "data" \notin DOMAIN response.body
        ELSE Calls = {} /\ job = Idle /\ pc = "done"

\* the hybrid tool has called both providers and answered 200
C9_Witness ==
    /\ event.body.toolType = "hybrid-mastering"
    /\ Count(trace, "call", "gemini") = 1 /\ Count(trace, "call", "start") = 1 /\ Count(trace, "call", "poll") = 1
    /\ response.statusCode = 200

\* what the prediction branch has done to the outside: its calls and sleeps, in order
RECURSIVE Effects(_)
Effects(t) ==
    IF t = <<>> THEN <<>>
    ELSE (IF Head(t).ev \in {"call", "sleep"} THEN <<Head(t)>> ELSE <<>>) \o Effects(Tail(t))

\* C10: the prediction branch and callReplicateAPI, given the same model id,
\* input, API key and the same provider answers, are at every step at the same
\* place with the same `prediction`, have issued the same calls and sleeps in the
\* same order, and end with the same result or the same error message.
C10_SameImplementation ==
    /\ twin.m = job
    /\ twin.effects = Effects(trace)

\* both have gone through two polls and ended, with a result or with an error
C10_Witness ==
    /\ twin.m.pc \in {"returned", "threw"}
    /\ job.pc = twin.m.pc
    /\ Len(twin.effects) = 5
    /\ Count(trace, "call", "poll") = 2

\* a POST that names the hybrid tool
Hybrid == event.httpMethod = "POST" /\ event.body.json = "object" /\ event.body.toolType = "hybrid-mastering"

\* the hybrid request carries inputs.replicate_payload, which the brief prompt reads
HybridComplete == Hybrid /\ event.body.inputs.present /\ event.body.inputs.replicate_payload.present

\* the text endpoint answered with a success status and a body that has a candidate
GenerationSucceeded(r) == r.net = "ok" /\ ok(r) /\ r.body.json = "object" /\ r.body.candidates = "present"

\* the submit is issued at most once and only after the generation call was
\* answered successfully; a failed generation call ends the invocation without
\* any call of the prediction provider
SubmitAfterBrief ==
    /\ Count(trace, "call", "start") <= 1
    /\ \A i \in PredictionCalls :
          \E c \in At(trace, "call", "gemini") : \E a \in At(trace, "response", "gemini") :
              /\ c < a /\ a < i
              /\ trace[a].info.net = "ok" /\ trace[a].info.json = "object"
              /\ trace[a].info.status >= 200 /\ trace[a].info.status < 300
    /\ job.pc = "awaitStart" => GenerationSucceeded(lastResponse)
    /\ (HasAnswer /\ LastApi = "gemini" /\ ~GenerationSucceeded(lastResponse)) =>
          /\ PredictionCalls = {} /\ job = Idle
          /\ pc = "done" /\ ~ENABLED Next
          /\ response.statusCode = 500

\* C11 as stated: in a hybrid-mastering invocation the generation call is issued
\* exactly once and the prediction job is submitted at most once, the submit is
\* issued only after the generation call has completed successfully, and if the
\* generation call fails no call to the prediction provider is ever issued.
C11_GenerationExactlyOnce ==
    (Hybrid /\ pc # "entry") =>
        /\ Count(trace, "call", "gemini") = 1
        /\ SubmitAfterBrief

\* C11, amended: the generation call is issued at most once, and exactly once
\* when the request carries inputs.replicate_payload; without it the brief prompt
\* cannot be built, no outbound call is issued and the handler answers 500.  The
\* submit is issued at most once, only after the generation call has completed
\* successfully, and never after a failed generation call.
C11_HybridSequencing ==
    (Hybrid /\ pc # "entry") =>
        /\ Count(trace, "call", "gemini") <= 1
        /\ HybridComplete => Count(trace, "call", "gemini") = 1
        /\ ~HybridComplete => Calls = {} /\ Responds500(MsgTypeError)
        /\ SubmitAfterBrief

\* the brief was generated and the mastering job was then submitted
C11_Witness ==
    /\ HybridComplete
    /\ Count(trace, "call", "gemini") = 1 /\ Count(trace, "call", "start") = 1
    /\ brief = "Plan"
    /\ job.pc = "awaitStart"

\* the generation stage of the hybrid tool succeeded and the prediction stage then
\* failed: the submit was not answered 201, a poll was not answered 200, or the
\* job was reported failed
PredictionStageFailed ==
    /\ HasAnswer /\ LastApi \in {"start", "poll"}
    /\ \/ lastResponse.net = "error"
       \/ LastApi = "start" /\ lastResponse.status # HttpCreated
       \/ LastApi = "poll" /\ lastResponse.status # HttpOk
       \/ lastResponse.body.json = "object" /\ lastResponse.body.status = "failed"

\* the handler answered once, with a 500 that carries {error: <message>} only
Single500 ==
    /\ pc = "done" /\ ~ENABLED Next
    /\ response.kind = "object" /\ response.statusCode = 500
    /\ DOMAIN response.body = {"error"}

\* C12 as stated: the response of a hybrid-mastering invocation is either a 200
\* carrying both the brief and the audioUrl or a single 500 carrying only
\* {error: <message>}; when the generation stage succeeded and the prediction
\* stage then fails, the response is the 500 and contains no brief.
C12_NoPartialResult ==
    /\ (Hybrid /\ pc = "done") =>
          \/ /\ response.kind = "object" /\ response.statusCode = 200
             /\ {"brief", "audioUrl"} \subseteq DOMAIN response.body
          \/ Single500
    /\ (Hybrid /\ PredictionStageFailed) => Single500 /\ "brief" \notin DOMAIN response.body

\* the part of C12 that holds of every invocation: a failure of either stage is
\* answered by a single 500 with {error} only, and a 200 is given only when both
\* stages succeeded
C12_FailureAnswers500Only ==
    /\ (Hybrid /\ pc = "done") =>
          \/ /\ response.kind = "object" /\ response.statusCode = 200
             /\ job.pc = "returned" /\ LoopEndedOn("succeeded")
             /\ DOMAIN response.body \subseteq {"type", "brief", "audioUrl"}
          \/ Single500
    /\ (Hybrid /\ PredictionStageFailed) => Single500 /\ "brief" \notin DOMAIN response.body

\* the brief was generated, the job then failed, and the 500 has no brief
C12_Witness ==
    /\ Hybrid /\ brief = "Plan"
    /\ PredictionStageFailed /\ LastApi = "poll" /\ lastResponse.status = 500
    /\ Single500

\* both stages of the hybrid tool succeeded: the generation call was answered
\* with a success status and the job ended with status 'succeeded'
BothStagesSucceeded ==
    /\ Hybrid /\ pc = "done"
    /\ \E a \in At(trace, "response", "gemini") :
          /\ trace[a].info.net = "ok" /\ trace[a].info.json = "object"
          /\ trace[a].info.status >= 200 /\ trace[a].info.status < 300
    /\ LoopEndedOn("succeeded")

\* C13: whenever both sub-calls of a hybrid-mastering invocation succeed, the 200
\* response body contains type 'hybrid-mastering', a non-empty brief string and a
\* defined audioUrl, for every text the generation provider returns and every
\* output value, an absent or null one included, the prediction provider returns.
C13_BriefAndAudioUrl ==
    BothStagesSucceeded =>
        /\ response.kind = "object" /\ response.statusCode = 200
        /\ "type" \in DOMAIN response.body /\ response.body.type = "hybrid-mastering"
        /\ "brief" \in DOMAIN response.body /\ response.body.brief \notin {"", null}
        /\ "audioUrl" \in DOMAIN response.body

\* the part of C13 that holds: the 200 has the type, the text of the generation
\* provider as brief and the output of the job as audioUrl, each left out of the
\* body when the provider did not send it
C13_BriefAndAudioUrlAsSent ==
    BothStagesSucceeded =>
        /\ response.kind = "object" /\ response.statusCode = 200
        /\ response.body = JSONstringify([type |-> "hybrid-mastering", brief |-> brief,
                                           audioUrl |-> lastResponse.body.output])
        /\ brief \in Texts \cup {undefined}

\* the message C14 expects of a rejected generation call: error.message of the
\* body when it has one, else the fallback
MessageOr(body, fallback) ==
    IF body.json = "object" /\ Truthy(body.message) THEN body.message ELSE fallback

\* the last outbound call went to the text or image endpoint and was answered
\* with a non-success status
GenerationRejected ==
    /\ HasAnswer /\ LastApi \in {"gemini", "image"}
    /\ lastResponse.net = "ok" /\ ~ok(lastResponse)

GenericMessage == IF LastApi = "image" THEN MsgImagen ELSE MsgGemini

\* C14: a generation call (text or image endpoint) answered with a non-success
\* status makes the adapter fail with error.message of the body if present and
\* else with a generic message; the handler answers 500 with {error: <that
\* message>} and issues no later outbound call, in particular no image call.
C14_GenerationNotOk ==
    GenerationRejected =>
        /\ Responds500(MessageOr(lastResponse.body, GenericMessage))
        /\ ~ENABLED Next
        /\ PredictionCalls = {}
        /\ LastApi = "gemini" => Count(trace, "call", "image") = 0

\* the part of C14 that holds of every rejected generation call: the handler
\* answers 500 at once and issues no later call; the message is error.message or
\* the generic one when the body is a JSON object
C14_GenerationNotOkAborts ==
    GenerationRejected =>
        /\ pc = "done" /\ response.kind = "object" /\ response.statusCode = 500
        /\ DOMAIN response.body = {"error"}
        /\ lastResponse.body.json = "object" =>
              response.body.error = MessageOr(lastResponse.body, GenericMessage)
        /\ ~ENABLED Next
        /\ PredictionCalls = {}
        /\ LastApi = "gemini" => Count(trace, "call", "image") = 0

\* a POST that names the image tool
ImageTool == event.httpMethod = "POST" /\ event.body.json = "object" /\ event.body.toolType = "gemini-image"

\* the strings of this model in which the marker does not occur, and what may
\* follow the marker in a generated text
MarkerFree == {"", "Plan", "Foto ", "A "}

AfterMarker == {" usa luz", " primero", " C", " B **Tip de Oro C"}

\* `prompt` is what precedes the first occurrence of the marker in `text`: the
\* whole text when the marker does not occur in it
PrecedesFirstMarker(prompt, text) ==
    /\ prompt \in MarkerFree
    /\ \/ prompt = text
       \/ \E rest \in AfterMarker : text = prompt \o TipMarker \o rest

\* the image endpoint answered with a success status and a JSON object
ImageAnswered == HasAnswer /\ LastApi = "image" /\ lastResponse.net = "ok" /\ ok(lastResponse)
                    /\ lastResponse.body.json = "object"

HasImagePayload == lastResponse.body.predictions = "present" /\ Truthy(lastResponse.body.bytesBase64Encoded)

\* C15: for toolType 'gemini-image' the image endpoint is called only after the
\* text generation call succeeded, with the part of the generated text that
\* precedes the first occurrence of the marker as prompt (the whole text when the
\* marker is absent); the 200 response has type 'gemini-image' and as data
\* 'data:image/png;base64,' followed by the returned payload; an image response
\* that is a success without an image payload makes the adapter fail with 'No se
\* pudo generar la imagen.' and the handler answer 500.
C15_ImageTool ==
    ImageTool =>
        /\ Count(trace, "call", "image") <= 1
        /\ \A i \in At(trace, "call", "image") :
              \E c \in At(trace, "call", "gemini") : \E a \in At(trace, "response", "gemini") :
                  /\ c < a /\ a < i
                  /\ trace[a].info.net = "ok" /\ trace[a].info.json = "object"
                  /\ trace[a].info.status >= 200 /\ trace[a].info.status < 300
        /\ pc = "awaitImage" =>
              /\ GenerationSucceeded(lastResponse) /\ lastResponse.body.text \in Texts
              /\ trace[Len(trace)].ev = "call" /\ trace[Len(trace)].api = "image"
              /\ PrecedesFirstMarker(trace[Len(trace)].info.prompt, lastResponse.body.text)
        /\ (pc = "done" /\ response.statusCode = 200) =>
              /\ ImageAnswered /\ HasImagePayload
              /\ response.kind = "object"
              /\ response.body = [type |-> "gemini-image",
                                   data |-> "data:image/png;base64," \o lastResponse.body.bytesBase64Encoded]
        /\ (ImageAnswered /\ HasImagePayload) => pc = "done" /\ response.statusCode = 200
        /\ (ImageAnswered /\ ~HasImagePayload) => Responds500(MsgNoImage)

\* a text with two markers was cut at the first one and the image came back
C15_Witness ==
    /\ ImageTool
    /\ \E i \in At(trace, "call", "image") : trace[i].info.prompt = "A "
    /\ ImageAnswered
    /\ pc = "done" /\ response.statusCode = 200
    /\ response.body.data = "data:image/png;base64,iVBORw0KGgo="

\* a POST with a parseable body whose toolType is a string that no branch takes
Unrecognised ==
    /\ event.httpMethod = "POST" /\ event.body.json = "object"
    /\ event.body.toolType \in ToolTypeStrings
    /\ ~startsWith(event.body.toolType, "gemini")
    /\ ~startsWith(event.body.toolType, "replicate")
    /\ event.body.toolType # "hybrid-mastering"

\* C16: a POST with a parseable body whose toolType is a string that neither
\* starts with 'gemini' nor with 'replicate' nor equals 'hybrid-mastering' makes
\* the handler issue no outbound call and fall through: it returns undefined,
\* a response without status and body, and no 4xx or 500 response, whether or
\* not the request has inputs.
C16_FallThrough ==
    (Unrecognised /\ pc # "entry") =>
        /\ pc = "done" /\ ~ENABLED Next
        /\ Calls = {} /\ job = Idle /\ brief = undefined
        /\ trace = <<Parse>>
        /\ response.kind = "undefined"
        /\ DOMAIN response.body = {}
        /\ response.statusCode \notin 400..599

\* 'hybrid-mastering2' without inputs has fallen through
C16_Witness ==
    /\ Unrecognised /\ event.body.toolType = "hybrid-mastering2" /\ ~event.body.inputs.present
    /\ pc = "done" /\ response.kind = "undefined"

\* the response at position `a` of the trace is that of a failed call: a transport
\* error, a non-success status of a generation call, a submit not answered 201 or
\* a poll not answered 200
FailedAt(a) ==
    /\ trace[a].ev = "response"
    /\ \/ trace[a].info.net = "error"
       \/ trace[a].api \in {"gemini", "image"} /\ ~(trace[a].info.status >= 200 /\ trace[a].info.status < 300)
       \/ trace[a].api = "start" /\ trace[a].info.status # HttpCreated
       \/ trace[a].api = "poll" /\ trace[a].info.status # HttpOk

\* the last response received before position `i` of the trace
ResponseBefore(i) ==
    trace[CHOOSE a \in 1..(i - 1) : trace[a].ev = "response" /\ \A b \in (a + 1)..(i - 1) : trace[b].ev # "response"]

\* C17: no failed outbound call is retried: after the first outbound call that
\* fails (non-success status of a generation call, submit not answered 201, poll
\* not answered 200, transport error) no further outbound call is issued and the
\* handler responds; the only call issued more than once is the job-status
\* fetch, and it is issued again only after a poll answered 200 with a
\* non-terminal job status.
C17_NoRetry ==
    /\ \A a \in 1..Len(trace) : FailedAt(a) =>
          /\ \A i \in Calls : i < a
          /\ a = Len(trace)
          /\ pc = "done" /\ response.kind = "object" /\ response.statusCode = 500
          /\ ~ENABLED Next
    /\ \A api \in {"gemini", "image", "start"} : Count(trace, "call", api) <= 1
    /\ \A i \in At(trace, "call", "poll") :
          (\E j \in At(trace, "call", "poll") : j < i) =>
              LET before == ResponseBefore(i) IN
              /\ before.api = "poll"
              /\ JobAnswer(before.info, HttpOk)
              /\ ~Terminal(before.info.jobStatus)

\* the second poll of the hybrid tool was answered 500, which ended the
\* invocation; the first had been answered 200 with an unfinished job
C17_Witness ==
    /\ Hybrid
    /\ Count(trace, "call", "poll") = 2
    /\ Len(PollAnswers) = 2
    /\ JobAnswer(PollAnswers[1], HttpOk) /\ PollAnswers[1].jobStatus = "processing"
    /\ FailedAt(Len(trace)) /\ trace[Len(trace)].api = "poll"
    /\ pc = "done" /\ response.statusCode = 500

\* the job ids the polls of the invocation were addressed to
PolledIds == {trace[i].info.id : i \in At(trace, "call", "poll")}

\* C18: every poll of an invocation targets the id of the job that the submit
\* call of the invocation created, whatever the provider answers, poll answers
\* whose body carries a different id or no id included.
C18_PollsTargetSubmittedJob ==
    /\ (job.pc = "awaitPoll" /\ Count(trace, "call", "poll") = 1) =>
          PolledIds = {toStr(lastResponse.body.id)}
    /\ Cardinality(PolledIds) <= 1

\* what holds instead: every poll targets the id carried by the body received
\* last, the answer to the submit for the first poll and the answer to the
\* previous poll for every later one
C18_PollsTargetLastReceivedId ==
    job.pc = "awaitPoll" =>
        /\ trace[Len(trace)].ev = "call" /\ trace[Len(trace)].api = "poll"
        /\ trace[Len(trace)].info.id = toStr(lastResponse.body.id)
        /\ lastResponse.body = job.prediction

\* the event at position `a` of the trace is the answer to the submit or to a
\* poll, accepted (201, respectively 200, and a JSON object) and with a job
\* status that is not terminal
NonTerminalAt(a) ==
    /\ a \in 1..Len(trace)
    /\ trace[a].ev = "response" /\ trace[a].api \in {"start", "poll"}
    /\ JobAnswer(trace[a].info, IF trace[a].api = "start" THEN HttpCreated ELSE HttpOk)
    /\ ~Terminal(trace[a].info.jobStatus)

Sleeps == {i \in 1..Len(trace) : trace[i].ev = "sleep"}

\* C19: every poll is preceded by exactly one sleep of the fixed interval, which
\* starts after the previous response (to the submit or to a poll) was received
\* and found non-terminal; no poll is issued immediately after the submit or
\* after another poll, and no sleep occurs once a terminal status or a failed
\* response has been received.
C19_SleepBeforeEveryPoll ==
    /\ \A i \in At(trace, "call", "poll") :
          /\ i - 1 \in Sleeps /\ i - 2 \notin Sleeps
          /\ NonTerminalAt(i - 2)
    /\ \A s \in Sleeps :
          /\ trace[s] = Sleep(2500)
          /\ NonTerminalAt(s - 1)
          /\ \A a \in 1..s : (trace[a].ev = "response" /\ trace[a].api \in {"start", "poll"}) => NonTerminalAt(a)
          /\ s < Len(trace) => (trace[s + 1].ev = "call" /\ trace[s + 1].api = "poll")
    /\ Cardinality(Sleeps) = Count(trace, "call", "poll") + (IF job.pc = "sleeping" THEN 1 ELSE 0)
    /\ job.pc = "sleeping" <=> (Len(trace) \in Sleeps /\ pc # "done")

\* two sleeps, each followed by a poll, the second of which found the job finished
C19_Witness ==
    /\ Cardinality(Sleeps) = 2 /\ Count(trace, "call", "poll") = 2
    /\ Len(PollAnswers) = 2 /\ Terminal(PollAnswers[2].jobStatus)
    /\ pc = "done"

\* the brief prompt that says a reference track was uploaded
PromptWithReference ==
    "Actúa como un ingeniero de mastering de clase mundial. Voy a masterizar una canción. "
    \o "Quiero que suene como la canción de referencia que he subido."
    \o " Describe en 3 puntos clave un plan de mastering para darle potencia, claridad y un carácter comercial."

\* the generation call and the submit of a hybrid invocation have both been issued
BriefAndSubmitIssued == Hybrid /\ Count(trace, "call", "gemini") = 1 /\ Count(trace, "call", "start") = 1

BriefCall == trace[CHOOSE i \in At(trace, "call", "gemini") : TRUE]

SubmitCall == trace[CHOOSE i \in At(trace, "call", "start") : TRUE]

\* C20: in a hybrid-mastering invocation the brief prompt says that a reference
\* track was supplied exactly when a reference track is passed as reference_audio
\* in the input of the submitted job, for every combination of fields present in
\* inputs.replicate_payload.
C20_ReferenceFlagAgrees ==
    BriefAndSubmitIssued =>
        (BriefCall.info.prompt = PromptWithReference <=> Truthy(SubmitCall.info.input.reference_audio))

\* what holds instead: the prompt follows the field reference_audio of the
\* payload, the input of the job carries the fields userTrack and referenceTrack
C20_ReferenceFlagFollowsReferenceAudio ==
    BriefAndSubmitIssued =>
        LET payload == event.body.inputs.replicate_payload IN
        /\ BriefCall.info.prompt = PromptWithReference <=> Truthy(payload.reference_audio)
        /\ SubmitCall.info.input = [input_audio |-> payload.userTrack, reference_audio |-> payload.referenceTrack]

====
